---- MODULE Spec2Model ----
(***************************************************************************)
(* cpppo.server.enip.poll: the Executor (execute), the Cycle Manager       *)
(* (loop) and the Supervisor (run) of src/server/enip/poll.py.             *)
(*                                                                         *)
(* Time is in whole seconds (the values timer() returns); delays that the  *)
(* code computes by multiplication (the backoff, the sleep slice) are      *)
(* exact rationals <<numerator, denominator>>.                             *)
(***************************************************************************)
EXTENDS Integers, Sequences, FiniteSets, TLC

VARIABLES
    cfg,        \* the arguments of run / loop (fixed during a behaviour)
    caller,     \* "run": loop is called by run; "direct": loop is called by a client
    now,        \* what timer() returns
    done,       \* process.done, set by another thread of control
    pc,         \* the position of the polling thread
    \* run's locals
    lst, dly, res, beg, backoff, exc, idx, wake,
    \* loop's locals
    cycle, last_poll, init_poll, done_poll, results, notice, argLast,
    \* execute's generator, the gateway's result stream, the gateway session
    gen, stream, gwOpen,
    \* history (not program state)
    kfail,      \* consecutive failed cycles since the start or the last success
    prevDly,    \* the delay set by the previous failed cycle of the streak, if any
    procLog,    \* the pairs processResult was invoked with in this cycle
    failLog,    \* the errors onFailure was invoked with in this cycle
    outcome,    \* how the current/last cycle went
    firstRet,   \* the lastPollStart returned by the first loop call that returned
    prevRet,    \* the lastPollStart returned by the previous loop call that returned
    nret,       \* whether 0, 1 or more loop calls have returned
    ndone       \* the cycles started since process.done was set

vars == <<cfg, caller, now, done, pc, lst, dly, res, beg, backoff, exc, idx, wake,
          cycle, last_poll, init_poll, done_poll, results, notice, argLast,
          gen, stream, gwOpen,
          kfail, prevDly, procLog, failLog, outcome, firstRet, prevRet, nret,
          ndone>>

runVars  == <<lst, dly, res, beg, backoff, idx, wake>>
loopVars == <<cycle, last_poll, init_poll, done_poll, results, notice, argLast>>
execVars == <<gen, stream, gwOpen>>
histVars == <<kfail, prevDly, procLog, failLog, firstRet, prevRet, nret, ndone>>

----------------------------------------------------------------------------
(* Bounds of the model *)
\* the last clock value under run, and under a client calling loop directly
MaxTime == 4
MaxClock == 5
\* the longest streak of consecutive failed cycles
MaxFail == 3

(* Python's None for a numeric argument, and for a rational one *)
None == -1
NoneRat == <<>>

----------------------------------------------------------------------------
(* Exact rational arithmetic for the delays *)
RECURSIVE Gcd(_, _)
Gcd(a, b) == IF b = 0 THEN a ELSE Gcd(b, a % b)

Abs(x) == IF x < 0 THEN 0 - x ELSE x

Norm(r) ==
    LET g == Gcd(Abs(r[1]), r[2])
    IN  <<r[1] \div g, r[2] \div g>>

Rat(n) == <<n, 1>>
RatLT(a, b) == a[1] * b[2] < b[1] * a[2]
RatLE(a, b) == a[1] * b[2] <= b[1] * a[2]
RatEq(a, b) == a[1] * b[2] = b[1] * a[2]
RatMul(a, b) == Norm(<<a[1] * b[1], a[2] * b[2]>>)
RatSub(a, b) == Norm(<<a[1] * b[2] - b[1] * a[2], a[2] * b[2]>>)
RatAdd(a, b) == Norm(<<a[1] * b[2] + b[1] * a[2], a[2] * b[2]>>)
\* Python's min( a, b ): b when b < a, else a
RatMin(a, b) == IF RatLT(b, a) THEN b ELSE a

Max(a, b) == IF a > b THEN a ELSE b

----------------------------------------------------------------------------
(* execute: poll.py 57-71 *)

\* the module's default parameter list
PARAMS == <<"Output Current", "Motor Velocity">>

\* params or PARAMS: an empty (or None) params is falsy
EffParams(p) == IF p = <<>> THEN PARAMS ELSE p

\* the exit of "with contextlib.closing( via.read( ... )) as reader"
CloseReaderKept(s) == s
CloseReader(s) == IF s = "open" THEN "closed" ELSE s

\* the pair execute yields for the k-th value the reader delivers; a value is
\* identified by its position in the stream
ZipPair(p, k) == <<EffParams(p)[k], k>>

----------------------------------------------------------------------------
(* The gateway (the proxy 'via'), an external collaborator: its scope exit *)

\* whether the session is open after via.__exit__: the exit closes the gateway
GatewayExit(open, e) == FALSE

----------------------------------------------------------------------------
(* loop: poll.py 74-127 *)

\* if not cycle: cycle = 1.0
EffCycle(c) == IF c = None \/ c = 0 THEN 1 ELSE c

\* last_poll after the drift handling of lines 95-108 (last_poll is a number)
AdvanceCopyNow(lp, ip, cy) == IF ip - lp < cy THEN lp ELSE ip
AdvanceOneCycle(lp, ip, cy) ==
    IF ip - lp < cy THEN lp ELSE IF lp # 0 THEN lp + cy ELSE ip
Advance(lp, ip, cy) ==
    LET dt == ip - lp
    IN  IF dt < cy
          THEN lp
          ELSE LET missed == dt \div cy
               IN  IF lp # 0 THEN lp + cy * missed ELSE ip

\* what lines 96-108 log
NoticeFromOne(lp, ip, cy) ==
    LET dt == ip - lp
    IN  IF dt < cy THEN "premature"
        ELSE IF lp # 0 /\ (dt \div cy) >= 1 THEN "missed"
        ELSE "none"
Notice(lp, ip, cy) ==
    LET dt == ip - lp
    IN  IF dt < cy THEN "premature"
        ELSE IF lp # 0 /\ (dt \div cy) > 1 THEN "missed"
        ELSE "none"

\* max( 0, last_poll+cycle-done_poll )
DelayUnclamped(lp, cy, dp) == lp + cy - dp
DelayUntilNext(lp, cy, dp) == Max(0, lp + cy - dp)

----------------------------------------------------------------------------
(* run: poll.py 130-180 *)

BackoffMin(c) ==
    IF c.backoff_min # None THEN Rat(c.backoff_min)
    ELSE IF c.cycle # None THEN Rat(c.cycle)
    ELSE Rat(1)

BackoffMax(c) ==
    IF c.backoff_max # None THEN Rat(c.backoff_max)
    ELSE RatMul(BackoffMin(c), Rat(10))

BackoffMultiplier(c) ==
    IF c.backoff_multiplier # NoneRat THEN c.backoff_multiplier ELSE <<3, 2>>

Latency(c) == IF c.latency # NoneRat THEN c.latency ELSE <<1, 2>>

\* the backoff after a failure, lines 171-176 (b = <<>> is backoff None)
NextBackoffUncapped(b, c) ==
    IF b = NoneRat THEN BackoffMin(c) ELSE RatMul(b, BackoffMultiplier(c))
NextBackoff(b, c) ==
    IF b = NoneRat
      THEN BackoffMin(c)
      ELSE RatMin(RatMul(b, BackoffMultiplier(c)), BackoffMax(c))

\* except Exception: what run's handler catches
CaughtOnlyIO(e) == e = "IOError"
Caught(e) == e \in {"TypeError", "SubstError", "IOError", "ProcessError", "FailureError"}

\* the pair the i-th process( p, v ) call of line 167-168 receives
ResAtReversed(r, i) == r[Len(r) + 1 - i]
ResAt(r, i) == r[i]

----------------------------------------------------------------------------
(* The configurations explored *)

\* explicit and defaulted backoff settings, among them backoff_min > backoff_max
\* and a backoff_min below the cycle duration
BackoffArgs == {<<None, None>>, <<None, 2>>, <<3, 2>>, <<1, 2>>}

AllRunConfigs ==
    { [ cycle |-> cy, backoff_min |-> b[1], backoff_max |-> b[2],
        backoff_multiplier |-> m, latency |-> NoneRat,
        failure |-> f, hasDone |-> h, params |-> <<>> ] :
      cy \in {None, 0, 2}, b \in BackoffArgs, m \in {NoneRat, <<2, 1>>},
      f \in BOOLEAN, h \in BOOLEAN }

\* an explicit multiplier is explored with both callbacks' features present,
\* a backoff_min below the cycle duration with neither
RunConfigs ==
    { c \in AllRunConfigs :
        /\ c.backoff_multiplier = NoneRat \/ (c.failure /\ c.hasDone)
        /\ c.backoff_min = 1 =>
              (c.backoff_multiplier = NoneRat /\ ~c.failure /\ ~c.hasDone) }

LoopConfigs ==
    [ cycle : {None, 0, 2},
      backoff_min : {None},
      backoff_max : {None},
      backoff_multiplier : {NoneRat},
      latency : {NoneRat},
      failure : {FALSE},
      hasDone : {FALSE},
      params : {<<>>, <<"Speed">>} ]

\* the state after run's lines 155-157 (Supervisor) or before a client's first
\* call of loop (Cycle Manager alone)
InitCommon ==
    /\ now = 0
    /\ done = FALSE
    /\ dly = Rat(0) /\ res = <<>> /\ backoff = NoneRat
    /\ exc = "none" /\ idx = 1 /\ wake = Rat(0)
    /\ cycle = 1 /\ last_poll = 0 /\ init_poll = 0 /\ done_poll = 0
    /\ results = <<>> /\ notice = "none" /\ argLast = 0
    /\ gen = "none" /\ stream = "none" /\ gwOpen = FALSE
    /\ kfail = 0 /\ prevDly = NoneRat /\ procLog = <<>> /\ failLog = <<>>
    /\ outcome = "none" /\ firstRet = None /\ prevRet = None /\ nret = 0
    /\ ndone = 0

Init ==
    /\ cfg \in RunConfigs
    /\ caller = "run"
    /\ pc = "R_while"
    /\ InitCommon
    /\ lst = 0
    /\ beg = now

InitLoop ==
    /\ cfg \in LoopConfigs
    /\ caller = "direct"
    /\ pc = "idle"
    /\ lst \in {None, 0}
    /\ beg = 0
    /\ InitCommon

----------------------------------------------------------------------------
(* The clock *)

\* the positions whose next step reads timer(); the clock is observed nowhere
\* else, so it is advanced only there
TimerRead == {"R_wait", "R_sleep", "R_beg", "L_begin", "L_done"}

\* time passes
Tick ==
    /\ pc \in TimerRead
    /\ now < MaxTime
    /\ now' = now + 1
    /\ UNCHANGED <<cfg, caller, done, pc, exc, outcome>>
    /\ UNCHANGED <<runVars, loopVars, execVars, histVars>>

\* a clock anomaly: timer() steps to an arbitrary value
ClockJump ==
    /\ pc \in TimerRead
    /\ \E t \in 0 .. MaxClock : t # now /\ now' = t
    /\ UNCHANGED <<cfg, caller, done, pc, exc, outcome>>
    /\ UNCHANGED <<runVars, loopVars, execVars, histVars>>

----------------------------------------------------------------------------
(* loop: poll.py 74-127 *)

\* where an exception raised by loop arrives
RaiseTo == IF caller = "run" THEN "R_except" ELSE "idle"
ReturnTo == IF caller = "run" THEN "R_process" ELSE "idle"

\* a client calls loop( via, cycle=..., last_poll=<what the last call returned> )
CallLoop ==
    /\ caller = "direct" /\ pc = "idle"
    /\ pc' = "L_begin"
    /\ argLast' = lst
    /\ exc' = "none" /\ outcome' = "running"
    \* a new frame: loop's locals of the previous call are gone
    /\ results' = <<>> /\ notice' = "none"
    /\ cycle' = 1 /\ last_poll' = 0 /\ init_poll' = 0 /\ done_poll' = 0
    /\ UNCHANGED <<cfg, caller, now, done, runVars, execVars, histVars>>

\* lines 92-116: the cycle bookkeeping, then entering "with via" and creating
\* the executor
LoopBegin ==
    /\ pc = "L_begin"
    /\ cycle' = EffCycle(cfg.cycle)
    /\ init_poll' = now
    /\ IF argLast = None
         THEN \* init_poll - None
              /\ exc' = "TypeError" /\ outcome' = "raised"
              /\ pc' = RaiseTo
              /\ UNCHANGED <<last_poll, notice, gen, stream>>
         ELSE /\ last_poll' = Advance(argLast, now, EffCycle(cfg.cycle))
              /\ notice' = Notice(argLast, now, EffCycle(cfg.cycle))
              /\ gen' = "created" /\ stream' = "none"
              /\ pc' = "L_list"
              /\ UNCHANGED <<exc, outcome>>
    /\ UNCHANGED <<cfg, caller, now, done, runVars, histVars>>
    /\ UNCHANGED <<done_poll, results, argLast, gwOpen>>

\* the first next() of the executor, lines 68-69: parameter_substitution, then
\* via.read; either may raise
ExecFirst ==
    /\ pc = "L_list" /\ gen = "created"
    /\ \E o \in {"ok", "SubstError", "IOError"} :
         IF o = "ok"
           THEN /\ gen' = "started" /\ stream' = "open" /\ gwOpen' = TRUE
                /\ UNCHANGED <<pc, exc>>
           ELSE /\ gen' = "finished" /\ exc' = o /\ pc' = "L_close"
                /\ stream' = stream
                \* a read that fails may have opened the session first
                /\ gwOpen' \in (IF o = "IOError" THEN {gwOpen, TRUE} ELSE {gwOpen})
    /\ UNCHANGED <<cfg, caller, now, done, outcome, runVars, loopVars, histVars>>

\* one step of "for p,v in zip( params or PARAMS, reader ): yield p,v", lines
\* 70-71: zip takes the next parameter, then the next value of the reader
ExecPull ==
    /\ pc = "L_list" /\ gen \in {"started", "suspended"}
    /\ IF Len(results) = Len(EffParams(cfg.params))
         THEN \* the parameters are exhausted
              /\ gen' = "finished" /\ stream' = CloseReader(stream)
              /\ pc' = "L_close"
              /\ UNCHANGED <<results, exc>>
         ELSE \E o \in {"value", "end", "IOError"} :
                CASE o = "value" ->
                       /\ results' = Append(results, ZipPair(cfg.params, Len(results) + 1))
                       /\ gen' = "suspended"
                       /\ UNCHANGED <<pc, stream, exc>>
                  [] o = "end" ->
                       /\ gen' = "finished" /\ stream' = CloseReader(stream)
                       /\ pc' = "L_close"
                       /\ UNCHANGED <<results, exc>>
                  [] o = "IOError" ->
                       /\ gen' = "finished" /\ stream' = CloseReader(stream)
                       /\ exc' = "IOError" /\ pc' = "L_close"
                       /\ UNCHANGED results
    /\ UNCHANGED <<cfg, caller, now, done, outcome, runVars, histVars, gwOpen>>
    /\ UNCHANGED <<cycle, last_poll, init_poll, done_poll, notice, argLast>>

\* the consumer of the executor is interrupted between two values
ConsumerAbort ==
    /\ caller = "direct"
    /\ pc = "L_list" /\ gen = "suspended"
    /\ exc' = "Interrupt" /\ pc' = "L_close"
    /\ UNCHANGED <<cfg, caller, now, done, outcome, runVars, loopVars, execVars, histVars>>

\* the exit of "with contextlib.closing( execute( via, **kwds )) as executor",
\* line 117: executor.close() raises GeneratorExit at the yield of a suspended
\* generator, which leaves the "with closing( reader )" of line 68
ExecutorClose ==
    /\ pc = "L_close"
    /\ IF gen = "suspended"
         THEN stream' = CloseReader(stream)
         ELSE stream' = stream
    /\ gen' = "finished"
    /\ pc' = "L_exit"
    /\ UNCHANGED <<cfg, caller, now, done, exc, outcome, runVars, loopVars, histVars, gwOpen>>

\* the exit of "with via", line 116; with an exception in flight loop raises
ViaExitSkipped ==
    /\ pc = "L_exit"
    /\ gwOpen' = gwOpen
    /\ IF exc = "none"
         THEN pc' = "L_done" /\ UNCHANGED outcome
         ELSE pc' = RaiseTo /\ outcome' = "raised"
    /\ UNCHANGED <<cfg, caller, now, done, exc, runVars, loopVars, histVars, gen, stream>>
ViaExitOnError ==
    /\ pc = "L_exit"
    /\ gwOpen' = (IF exc = "none" THEN gwOpen ELSE FALSE)
    /\ IF exc = "none"
         THEN pc' = "L_done" /\ UNCHANGED outcome
         ELSE pc' = RaiseTo /\ outcome' = "raised"
    /\ UNCHANGED <<cfg, caller, now, done, exc, runVars, loopVars, histVars, gen, stream>>
ViaExit ==
    /\ pc = "L_exit"
    /\ gwOpen' = GatewayExit(gwOpen, exc)
    /\ IF exc = "none"
         THEN pc' = "L_done" /\ UNCHANGED outcome
         ELSE pc' = RaiseTo /\ outcome' = "raised"
    /\ UNCHANGED <<cfg, caller, now, done, exc, runVars, loopVars, histVars, gen, stream>>

\* lines 121-127, and the caller's "lst,dly,res = loop( ... )"
LoopFinish ==
    /\ pc = "L_done"
    /\ done_poll' = now
    /\ lst' = last_poll
    /\ dly' = Rat(DelayUntilNext(last_poll, cycle, now))
    /\ res' = results
    /\ idx' = 1
    /\ outcome' = "returned"
    /\ pc' = ReturnTo
    /\ prevRet' = IF nret = 0 THEN None ELSE lst
    /\ firstRet' = IF nret = 0 THEN last_poll ELSE firstRet
    /\ nret' = IF nret < 2 THEN nret + 1 ELSE nret
    /\ UNCHANGED <<cfg, caller, now, done, exc, beg, backoff, wake, execVars>>
    /\ UNCHANGED <<cycle, last_poll, init_poll, results, notice, argLast>>
    /\ UNCHANGED <<kfail, prevDly, procLog, failLog, ndone>>

NextLoop ==
    \/ ClockJump
    \/ CallLoop
    \/ LoopBegin
    \/ ExecFirst
    \/ ExecPull
    \/ ConsumerAbort
    \/ ExecutorClose
    \/ ViaExit
    \/ LoopFinish

SpecLoop == InitLoop /\ [][NextLoop]_vars

\* a non-decreasing clock: timer() never returns less than it did before
ClockAdvance ==
    /\ pc \in TimerRead
    /\ \E t \in (now + 1) .. MaxClock : now' = t
    /\ UNCHANGED <<cfg, caller, done, pc, exc, outcome>>
    /\ UNCHANGED <<runVars, loopVars, execVars, histVars>>

NextLoopMonotone ==
    \/ ClockAdvance
    \/ CallLoop
    \/ LoopBegin
    \/ ExecFirst
    \/ ExecPull
    \/ ConsumerAbort
    \/ ExecutorClose
    \/ ViaExit
    \/ LoopFinish

\* a client calling loop repeatedly under a non-decreasing clock
SpecLoopMonotone == InitLoop /\ [][NextLoopMonotone]_vars

----------------------------------------------------------------------------
(* run: poll.py 155-180 *)

\* another thread of control sets process.done
SetDone ==
    /\ caller = "run"
    /\ cfg.hasDone /\ ~done
    /\ pc \notin {"returned", "raised"}
    /\ done' = TRUE
    /\ UNCHANGED <<cfg, caller, now, pc, exc, outcome>>
    /\ UNCHANGED <<runVars, loopVars, execVars, histVars>>

\* line 158: while not hasattr( process, 'done' ) or not process.done
RunCheckNever ==
    /\ pc = "R_while"
    /\ pc' = "R_wait"
    /\ UNCHANGED <<cfg, caller, now, done, exc, outcome>>
    /\ UNCHANGED <<runVars, loopVars, execVars, histVars>>
RunCheck ==
    /\ pc = "R_while"
    /\ pc' = IF cfg.hasDone /\ done THEN "returned" ELSE "R_wait"
    /\ UNCHANGED <<cfg, caller, now, done, exc, outcome>>
    /\ UNCHANGED <<runVars, loopVars, execVars, histVars>>

\* lines 160-163: ela < dly, so sleep a slice and re-check
RunSleepWhole ==
    /\ pc = "R_wait"
    /\ RatLT(Rat(now - beg), dly)
    /\ wake' = RatAdd(Rat(beg), dly)
    /\ pc' = "R_sleep"
    /\ UNCHANGED <<cfg, caller, now, done, exc, outcome>>
    /\ UNCHANGED <<lst, dly, res, beg, backoff, idx>>
    /\ UNCHANGED <<loopVars, execVars, histVars>>
RunSleep ==
    /\ pc = "R_wait"
    /\ RatLT(Rat(now - beg), dly)
    /\ wake' = RatAdd(Rat(now), RatMin(Latency(cfg), RatSub(dly, Rat(now - beg))))
    /\ pc' = "R_sleep"
    /\ UNCHANGED <<cfg, caller, now, done, exc, outcome>>
    /\ UNCHANGED <<lst, dly, res, beg, backoff, idx>>
    /\ UNCHANGED <<loopVars, execVars, histVars>>

\* time.sleep returns once the slice has passed
RunWake ==
    /\ pc = "R_sleep"
    /\ RatLE(wake, Rat(now))
    /\ pc' = "R_while"
    /\ wake' = Rat(0)
    /\ UNCHANGED <<cfg, caller, now, done, exc, outcome>>
    /\ UNCHANGED <<lst, dly, res, beg, backoff, idx>>
    /\ UNCHANGED <<loopVars, execVars, histVars>>

\* lines 160-166: the delay has expired, call loop( via, last_poll=lst, **kwds )
RunPollNow ==
    /\ pc = "R_wait"
    /\ kfail < MaxFail
    /\ pc' = "L_begin"
    /\ argLast' = lst
    /\ exc' = "none" /\ outcome' = "running"
    /\ ndone' = IF done THEN ndone + 1 ELSE ndone
    /\ UNCHANGED <<cfg, caller, now, done, runVars, execVars>>
    /\ UNCHANGED <<kfail, prevDly, procLog, failLog, firstRet, prevRet, nret>>
    /\ UNCHANGED <<cycle, last_poll, init_poll, done_poll, results, notice>>
RunPoll ==
    /\ pc = "R_wait"
    /\ ~RatLT(Rat(now - beg), dly)
    /\ kfail < MaxFail
    /\ pc' = "L_begin"
    /\ argLast' = lst
    /\ exc' = "none" /\ outcome' = "running"
    /\ ndone' = IF done THEN ndone + 1 ELSE ndone
    /\ UNCHANGED <<cfg, caller, now, done, runVars, execVars>>
    /\ UNCHANGED <<kfail, prevDly, procLog, failLog, firstRet, prevRet, nret>>
    /\ UNCHANGED <<cycle, last_poll, init_poll, done_poll, results, notice>>

\* lines 167-168: process( p, v ) for the next pair; it may raise
RunProcess ==
    /\ pc = "R_process"
    /\ idx <= Len(res)
    /\ procLog' = Append(procLog, ResAt(res, idx))
    /\ \E o \in {"ok", "ProcessError"} :
         IF o = "ok"
           THEN idx' = idx + 1 /\ UNCHANGED <<pc, exc>>
           ELSE /\ exc' = o
                /\ pc' = "R_except"
                /\ UNCHANGED idx
    /\ UNCHANGED <<cfg, caller, now, done, outcome>>
    /\ UNCHANGED <<lst, dly, res, beg, backoff, wake>>
    /\ UNCHANGED <<loopVars, execVars>>
    /\ UNCHANGED <<kfail, prevDly, failLog, firstRet, prevRet, nret, ndone>>

\* line 169: backoff = None
RunSuccess ==
    /\ pc = "R_process"
    /\ idx > Len(res)
    /\ backoff' = NoneRat
    /\ kfail' = 0 /\ prevDly' = NoneRat
    /\ pc' = "R_beg"
    /\ UNCHANGED <<cfg, caller, now, done, exc, outcome>>
    /\ UNCHANGED <<lst, dly, res, beg, idx, wake>>
    /\ UNCHANGED <<loopVars, execVars>>
    /\ UNCHANGED <<procLog, failLog, firstRet, prevRet, nret, ndone>>

\* lines 170-177: the exception handler sets the backoff and the delay; an
\* exception the handler does not catch leaves run
RunExcept ==
    /\ pc = "R_except"
    /\ IF Caught(exc)
         THEN /\ backoff' = NextBackoff(backoff, cfg)
              /\ dly' = NextBackoff(backoff, cfg)
              /\ kfail' = kfail + 1
              /\ prevDly' = backoff
              /\ pc' = IF cfg.failure THEN "R_failure" ELSE "R_beg"
         ELSE /\ pc' = "raised"
              /\ UNCHANGED <<backoff, dly, kfail, prevDly>>
    /\ UNCHANGED <<cfg, caller, now, done, exc, outcome>>
    /\ UNCHANGED <<lst, res, beg, idx, wake>>
    /\ UNCHANGED <<loopVars, execVars>>
    /\ UNCHANGED <<procLog, failLog, firstRet, prevRet, nret, ndone>>

\* lines 178-179: failure( exc ); an exception of the callback leaves run
RunFailure ==
    /\ pc = "R_failure"
    /\ failLog' = Append(failLog, exc)
    /\ \E o \in {"ok", "FailureError"} :
         IF o = "ok"
           THEN pc' = "R_beg" /\ UNCHANGED exc
           ELSE pc' = "raised" /\ exc' = o
    /\ UNCHANGED <<cfg, caller, now, done, outcome>>
    /\ UNCHANGED <<runVars, loopVars, execVars>>
    /\ UNCHANGED <<kfail, prevDly, procLog, firstRet, prevRet, nret, ndone>>

\* line 180: beg = timer(); the iteration's temporaries (res, exc, the frame of
\* loop) are not read again
RunBeg ==
    /\ pc = "R_beg"
    /\ beg' = now
    /\ pc' = "R_while"
    /\ res' = <<>> /\ idx' = 1 /\ exc' = "none" /\ outcome' = "none"
    /\ results' = <<>> /\ notice' = "none" /\ argLast' = 0
    /\ cycle' = 1 /\ last_poll' = 0 /\ init_poll' = 0 /\ done_poll' = 0
    /\ gen' = "none" /\ stream' = "none"
    /\ procLog' = <<>> /\ failLog' = <<>>
    /\ UNCHANGED <<cfg, caller, now, done, gwOpen>>
    /\ UNCHANGED <<lst, dly, backoff, wake>>
    /\ UNCHANGED <<kfail, prevDly, firstRet, prevRet, nret, ndone>>

Next ==
    \/ Tick
    \/ SetDone
    \/ RunCheck
    \/ RunSleep
    \/ RunWake
    \/ RunPoll
    \/ LoopBegin
    \/ ExecFirst
    \/ ExecPull
    \/ ExecutorClose
    \/ ViaExit
    \/ LoopFinish
    \/ RunProcess
    \/ RunSuccess
    \/ RunExcept
    \/ RunFailure
    \/ RunBeg

Spec == Init /\ [][Next]_vars

\* the steps of the polling thread: every read and every callback terminates,
\* by returning or by raising
PollingThread ==
    \/ RunCheck
    \/ RunSleep
    \/ RunWake
    \/ RunPoll
    \/ LoopBegin
    \/ ExecFirst
    \/ ExecPull
    \/ ExecutorClose
    \/ ViaExit
    \/ LoopFinish
    \/ RunProcess
    \/ RunSuccess
    \/ RunExcept
    \/ RunFailure
    \/ RunBeg

\* run with a process that has the attribute 'done' and an onFailure callback,
\* the backoff settings defaulted
InitCancel ==
    /\ Init
    /\ cfg.hasDone /\ cfg.failure
    /\ cfg.backoff_min = None /\ cfg.backoff_max = None
    /\ cfg.backoff_multiplier = NoneRat

\* run under a scheduler that keeps the polling thread running, and a clock
\* that keeps advancing
FairSpec == InitCancel /\ [][Next]_vars /\ WF_vars(PollingThread) /\ WF_vars(Tick)

----------------------------------------------------------------------------
(* Properties of run's backoff *)

RECURSIVE RatPow(_, _)
RatPow(r, k) == IF k = 0 THEN Rat(1) ELSE RatMul(r, RatPow(r, k - 1))

\* a failed cycle has just set the pending delay
DelaySet == pc \in {"R_failure", "R_beg"} /\ kfail >= 1

\* min( backoffMin * backoffMultiplier^(k-1), backoffMax )
ClosedForm(k) ==
    RatMin(RatMul(BackoffMin(cfg), RatPow(BackoffMultiplier(cfg), k - 1)), BackoffMax(cfg))

\* C1 as claimed: the delay set by the k-th consecutive failed cycle equals
\* min( backoffMin * backoffMultiplier^(k-1), backoffMax ), for every
\* configuration of the backoff.
C1_ClosedFormAlways ==
    DelaySet => RatEq(dly, ClosedForm(kfail))

\* C1 as amended: the first failure of a streak (from the start of the loop or
\* after a successful cycle) sets the delay to exactly backoffMin; the k-th
\* (k > 1) sets it to min( previous delay * backoffMultiplier, backoffMax );
\* and this is min( backoffMin * backoffMultiplier^(k-1), backoffMax ) whenever
\* backoffMin <= backoffMax.
C1_BackoffSequence ==
    DelaySet =>
        /\ dly = backoff
        /\ kfail = 1 => prevDly = NoneRat /\ RatEq(dly, BackoffMin(cfg))
        /\ kfail > 1 =>
             /\ prevDly # NoneRat
             /\ RatEq(dly, RatMin(RatMul(prevDly, BackoffMultiplier(cfg)), BackoffMax(cfg)))
        /\ RatLE(BackoffMin(cfg), BackoffMax(cfg)) => RatEq(dly, ClosedForm(kfail))

\* the scenario of the specification: the third consecutive failure with
\* backoffMin = 1.0, backoffMultiplier = 1.5, backoffMax = 10.0 sets 2.25
C1_Witness ==
    /\ DelaySet /\ kfail = 3
    /\ cfg.cycle = None /\ cfg.backoff_min = None /\ cfg.backoff_max = None
    /\ cfg.backoff_multiplier = NoneRat
    /\ dly = <<9, 4>>

----------------------------------------------------------------------------
(* Properties of run's termination *)

----------------------------------------------------------------------------
(* Properties of run's cycles *)

\* the iteration that ran a cycle is over (before line 180), or run has left
\* through the onFailure callback
CycleOver == pc = "R_beg" \/ (pc = "raised" /\ exc = "FailureError")

\* the error loop raised, if the read of this cycle failed
ReadError == {"SubstError", "IOError"}

\* C3: a cycle whose read fails invokes onFailure (when supplied) exactly once,
\* with the error, invokes processResult for no pair, and leaves the backoff
\* active; a cycle that succeeds invokes processResult exactly once for each
\* returned pair, in request order, before the iteration ends (hence before a
\* later cycle starts), then clears the backoff, and does not invoke onFailure.
C3_CycleCallbacks ==
    /\ (CycleOver /\ outcome = "raised") =>
          /\ Len(failLog) = (IF cfg.failure THEN 1 ELSE 0)
          /\ \A i \in 1 .. Len(failLog) : failLog[i] \in ReadError
          /\ pc = "R_beg" /\ cfg.failure => failLog = <<exc>>
          /\ procLog = <<>>
          /\ backoff # NoneRat
    /\ (CycleOver /\ outcome = "returned" /\ exc = "none") =>
          /\ procLog = res
          /\ \A i \in 1 .. Len(procLog) : procLog[i] = <<EffParams(cfg.params)[i], i>>
          /\ failLog = <<>>
          /\ backoff = NoneRat
    /\ pc \in {"L_begin", "L_list", "L_close", "L_exit", "L_done"} =>
          procLog = <<>> /\ failLog = <<>>

\* a successful cycle has processed both default parameters, in order
C3_Witness ==
    /\ pc = "R_beg" /\ outcome = "returned" /\ exc = "none"
    /\ procLog = <<<<"Output Current", 1>>, <<"Motor Velocity", 2>>>>
    /\ backoff = NoneRat

\* the positions of run's failure path, from the handler to line 180
FailurePath == pc \in {"R_except", "R_failure"} \/ (pc = "R_beg" /\ exc # "none")

----------------------------------------------------------------------------
(* Properties of execute and loop, called directly *)

\* a call of loop has returned to the client
Returned == pc = "idle" /\ outcome = "returned"

\* the number of requested parameters
NParams == Len(EffParams(cfg.params))

\* C5 as claimed: a fully consumed execute yields exactly one pair per requested
\* parameter, the i-th being (i-th parameter, i-th value read), or raises; loop
\* never returns a results list whose length differs from the number of
\* requested parameters.
C5_AllOrError ==
    /\ (pc \in {"L_close", "L_exit", "L_done"} /\ exc = "none") =>
          /\ Len(results) = NParams
          /\ \A i \in 1 .. Len(results) : results[i] = <<EffParams(cfg.params)[i], i>>
    /\ Returned => Len(res) = NParams

\* C6 as claimed: every lastPollStart a loop call returns is the one the first
\* cycle returned plus a non-negative whole number of cycle durations, and is
\* not less than the one returned before it.
C6_CadenceGrid ==
    Returned =>
        /\ lst >= firstRet
        /\ (lst - firstRet) % EffCycle(cfg.cycle) = 0
        /\ prevRet # None => lst >= prevRet

\* the time elapsed at the start of the call since the lastPollStart passed in
Elapsed == init_poll - argLast

\* C7: a call with a previously set lastPollStart returns it unchanged when
\* elapsed < cycleDuration (and still executes the poll), and returns it plus
\* cycleDuration * floor( elapsed / cycleDuration ) when elapsed >= cycleDuration.
C7_Advance ==
    (Returned /\ argLast > 0) =>
        LET cy == IF cfg.cycle = None \/ cfg.cycle = 0 THEN 1 ELSE cfg.cycle
        IN  /\ Elapsed < cy => lst = argLast /\ gen = "finished"
            /\ Elapsed >= cy =>
                 \E k \in 1 .. MaxClock :
                    /\ k * cy <= Elapsed /\ Elapsed < (k + 1) * cy
                    /\ lst = argLast + cy * k

\* a call that found one whole cycle and a fraction elapsed
C7_Witness ==
    /\ Returned /\ argLast > 0
    /\ Elapsed > cycle /\ Elapsed < 2 * cycle
    /\ lst = argLast + cycle

\* C8 as claimed: a call with no prior lastPollStart (None, loop's default, or
\* 0, the value run starts with) completes the poll and returns
\* lastPollStart = now, whatever now and the cycle duration are.
C8_FirstCycle ==
    (pc = "idle" /\ outcome \in {"returned", "raised"} /\ argLast \in {None, 0}) =>
        /\ exc # "TypeError"
        /\ outcome = "returned" => lst = init_poll

\* C9: a call that returns, returns delayUntilNext =
\* max( 0, newLastPollStart + cycleDuration - completionTime ), never negative,
\* with cycleDuration 1.0 when cycle is unspecified or zero.
C9_DelayUntilNext ==
    Returned =>
        LET cy == IF cfg.cycle = None \/ cfg.cycle = 0 THEN 1 ELSE cfg.cycle
            x  == lst + cy - done_poll
        IN  /\ dly[2] = 1
            /\ dly[1] >= 0 /\ dly[1] >= x
            /\ dly[1] = 0 \/ dly[1] = x

\* a poll that finished after the end of its cycle: the delay is clamped to 0
C9_Witness ==
    /\ Returned /\ lst + cycle - done_poll < 0 /\ dly = Rat(0)

\* C10: the result stream is closed when the executor's scope is left, before
\* the gateway's scope is left (where the gateway is closed), and so when loop
\* returns or raises: after exhaustion, after an error of the stream, and
\* after an early termination of the consumer.
C10_StreamClosed ==
    /\ pc \in {"L_exit", "L_done", "idle"} => stream # "open"
    /\ (pc = "L_close" /\ gen = "finished") => stream # "open"
    /\ stream = "open" => gwOpen

\* the consumer was interrupted after the first value and the stream is closed
\* before the gateway's scope is left
C10_Witness ==
    /\ pc = "L_exit" /\ exc = "Interrupt" /\ Len(results) = 1
    /\ stream = "closed" /\ gwOpen

----------------------------------------------------------------------------
(* Properties of run's exit *)

----------------------------------------------------------------------------
(* Properties of run's cancellation *)

\* run has ended
Ended == pc \in {"returned", "raised"}

\* the positions of a cycle: loop, the callbacks, the handler
InFlight ==
    pc \in {"L_begin", "L_list", "L_close", "L_exit", "L_done",
            "R_process", "R_except", "R_failure"}

\* the explored horizon ends here: a sleep that ends after the last clock
\* value, or a cycle beyond the longest streak of failures
Cut ==
    \/ pc = "R_sleep" /\ now = MaxTime /\ RatLT(Rat(now), wake)
    \/ pc = "R_wait" /\ kfail >= MaxFail /\ ~RatLT(Rat(now - beg), dly)

\* the parts of C12 that neither version changes: run returns only from the
\* completion check, so a cycle in flight runs to its end (line 180, or the
\* exception of onFailure) first; an iteration whose check saw process.done
\* does nothing but return; at most one cycle is started after the flag was set
CancelSafety ==
    /\ [](ndone <= 1)
    /\ [][pc' = "returned" => (pc = "R_while" /\ done)]_vars
    /\ [][(pc = "R_while" /\ cfg.hasDone /\ done) => pc' \in {"R_while", "returned"}]_vars
    /\ [][InFlight => (InFlight' \/ pc' \in {"R_beg", "raised"})]_vars

----------------------------------------------------------------------------
(* Properties of run's pacing *)

\* the time elapsed since the reference time of line 157 / 180
Ela == Rat(now - beg)

\* min( pollLatencySlice, delay - elapsed )
Slice == RatMin(Latency(cfg), RatSub(dly, Ela))

\* C13: run starts a cycle only when the time elapsed since the reference
\* recorded at the end of the previous cycle is at least the pending delay;
\* otherwise it sleeps until now + min( pollLatencySlice, delay - elapsed ), a
\* positive slice not longer than pollLatencySlice, and after the sleep goes
\* to the completion check and nowhere else; so the read after a failed cycle
\* begins no sooner than the current backoff after the reference time.
C13_DelayHonoured ==
    /\ [][(pc = "R_wait" /\ pc' = "L_begin") => RatLE(dly, Ela)]_vars
    /\ [][(pc = "R_wait" /\ RatLT(Ela, dly) /\ pc' # pc) =>
             /\ pc' = "R_sleep"
             /\ wake' = RatAdd(Rat(now), Slice)
             /\ RatLT(Rat(0), Slice) /\ RatLE(Slice, Latency(cfg))]_vars
    /\ [][(pc = "R_sleep" /\ pc' # pc) => (pc' = "R_while" /\ RatLE(wake, Rat(now)))]_vars
    /\ []((pc \in {"R_while", "R_wait", "R_sleep"} /\ backoff # NoneRat) => dly = backoff)
    /\ []((pc \in {"L_begin", "L_list"} /\ backoff # NoneRat) => RatLE(backoff, Ela))

\* one second after the second consecutive failure set the delay to 1.5, run
\* sleeps for the remaining half second
C13_Witness ==
    /\ pc = "R_sleep" /\ kfail = 2 /\ dly = <<3, 2>>
    /\ now - beg = 1 /\ wake = RatAdd(Rat(now), <<1, 2>>)

----------------------------------------------------------------------------
(* Properties of loop's logging *)

\* a call of loop is past its drift handling (lines 95-108)
DriftHandled ==
    \/ pc \in {"L_list", "L_close", "L_exit", "L_done"}
    \/ pc = "idle" /\ outcome \in {"returned", "raised"} /\ exc # "TypeError"

\* C14: loop produces the "missed polls" notice in exactly the calls that were
\* passed a previous lastPollStart and found floor( elapsed / cycleDuration ) > 1,
\* that is elapsed >= 2 * cycleDuration: not on a first cycle, not on a
\* premature poll, not when one cycle (and less than two) has elapsed, although
\* then lastPollStart is advanced by one cycleDuration all the same.
C14_MissedNotice ==
    DriftHandled =>
        /\ notice = "missed" <=> (argLast # 0 /\ Elapsed >= 2 * cycle)
        /\ notice = "premature" <=> Elapsed < cycle
        /\ (argLast # 0 /\ Elapsed >= cycle /\ Elapsed < 2 * cycle) =>
              notice = "none" /\ last_poll = argLast + cycle
        /\ (argLast # 0 /\ Elapsed >= cycle) => last_poll >= argLast + cycle
        /\ (argLast = 0 /\ Elapsed >= cycle) => last_poll = init_poll

\* a call that found three whole cycles elapsed since the lastPollStart it
\* was passed has logged the notice and returned
C14_Witness ==
    /\ Returned /\ argLast > 0 /\ Elapsed = 3 * cycle
    /\ notice = "missed" /\ lst = argLast + 3 * cycle

----------------------------------------------------------------------------
(* Properties of the backoff's cap *)

\* a backoff is active: the last cycle failed
BackoffActive == backoff # NoneRat

\* C15 as claimed: for every configuration of backoffMin, backoffMultiplier
\* and backoffMax, an active backoff, and so the delay a failure sets, does
\* not exceed backoffMax.
C15_NeverAboveMax ==
    /\ BackoffActive => RatLE(backoff, BackoffMax(cfg))
    /\ DelaySet => RatLE(dly, BackoffMax(cfg))

\* C15 as amended: the backoff set by the first failure of a streak is
\* backoffMin, whatever backoffMax is; the backoff set by every later failure
\* of the streak does not exceed backoffMax; so an active backoff, and the
\* delay a failure sets, never exceeds the larger of backoffMin and backoffMax,
\* and never exceeds backoffMax when backoffMin <= backoffMax.
C15_CappedAfterFirst ==
    /\ BackoffActive <=> kfail >= 1
    /\ DelaySet => dly = backoff
    /\ BackoffActive =>
          /\ kfail = 1 => RatEq(backoff, BackoffMin(cfg))
          /\ kfail >= 2 => RatLE(backoff, BackoffMax(cfg))
          /\ RatLE(backoff, BackoffMax(cfg)) \/ RatLE(backoff, BackoffMin(cfg))
          /\ RatLE(BackoffMin(cfg), BackoffMax(cfg)) => RatLE(backoff, BackoffMax(cfg))

\* with backoffMin 1.0, backoffMultiplier 1.5 and backoffMax 2, the third
\* consecutive failure is capped: 2, not 2.25
C15_Witness ==
    /\ DelaySet /\ kfail = 3 /\ prevDly = <<3, 2>>
    /\ cfg.backoff_max = 2 /\ dly = Rat(2)

----------------------------------------------------------------------------
(* Properties of lastPollStart under run *)

\* loop has returned to run after a streak of failed cycles
ReturnedAfterFailures == pc = "R_process" /\ kfail >= 1

\* C16 as claimed: on the failure path of a cycle whose loop call raised, lst
\* is still the lastPollStart that call was passed; and the loop call that
\* returns after a streak of failed cycles returns a lastPollStart that is the
\* one returned before the failures plus a whole number of cycleDurations, or,
\* if no loop call had returned before, the start time of this call.
C16_FailureKeepsGrid ==
    /\ (FailurePath /\ outcome = "raised") => lst = argLast
    /\ ReturnedAfterFailures =>
          /\ prevRet = None => lst = init_poll
          /\ prevRet # None =>
                /\ lst >= prevRet
                /\ (lst - prevRet) % EffCycle(cfg.cycle) = 0

\* loop, called by run with an initialised lastPollStart, is past line 95
Reinvoked ==
    /\ pc \in {"L_list", "L_close", "L_exit", "L_done", "R_process"}
    /\ argLast # 0

\* C17 as claimed: under run, once lastPollStart is initialised, every
\* invocation of loop finds elapsed >= cycleDuration since lastPollStart,
\* whatever the reads and the callbacks did and whatever the backoff settings
\* are; so every loop call that returns advances it by at least one
\* cycleDuration.
C17_NeverPremature ==
    /\ Reinvoked => Elapsed >= cycle
    /\ (Reinvoked /\ pc = "R_process") => lst >= argLast + cycle

\* C17 as amended: under run, once lastPollStart is initialised, loop is
\* invoked at elapsed < cycleDuration only while a backoff shorter than
\* cycleDuration is active (an error of processResult after loop returned
\* replaced the delay loop returned by that backoff); such a call polls and
\* returns lastPollStart unchanged. With no backoff active, or a backoff of at
\* least cycleDuration, every invocation finds elapsed >= cycleDuration and,
\* when it returns, has advanced lastPollStart by at least one cycleDuration.
C17_PrematureOnlyByShortBackoff ==
    /\ (Reinvoked /\ Elapsed < cycle) =>
          /\ BackoffActive /\ RatLT(backoff, Rat(cycle))
          /\ nret >= 1
          /\ pc = "R_process" => lst = argLast
    /\ (Reinvoked /\ Elapsed >= cycle /\ pc = "R_process") => lst >= argLast + cycle
    /\ (Reinvoked /\ ~BackoffActive) => Elapsed >= cycle

\* after an error of processResult and a backoff of one cycleDuration, loop
\* was invoked again, on time, and has advanced lastPollStart
C17_Witness ==
    /\ Reinvoked /\ pc = "R_process" /\ kfail = 1 /\ nret >= 2
    /\ RatEq(backoff, Rat(cycle))
    /\ Elapsed >= cycle /\ lst >= argLast + cycle

----------------------------------------------------------------------------
(* Properties of loop under a non-decreasing clock *)

\* C18: with a non-decreasing clock, a call of loop that returns returns a
\* lastPollStart not later than the start of the call; when the call advanced
\* or initialised it (elapsed >= cycleDuration), less than one cycleDuration
\* before the start of the call; and a delayUntilNext within
\* [0, cycleDuration].
C18_WithinOneCycle ==
    Returned =>
        /\ lst <= init_poll
        /\ init_poll <= done_poll
        /\ Elapsed >= cycle => init_poll - lst < cycle
        /\ lst # argLast => init_poll - lst < cycle
        /\ dly[2] = 1 /\ dly[1] >= 0 /\ dly[1] <= cycle

\* a call that started three seconds after the last start, with a cycle of
\* two: lastPollStart advanced by one cycle, one second before the call
C18_Witness ==
    /\ Returned /\ cycle = 2 /\ argLast > 0 /\ Elapsed = 3
    /\ lst = argLast + 2 /\ init_poll - lst = 1
    /\ done_poll = init_poll /\ dly = Rat(1)

----------------------------------------------------------------------------
(* Properties of run's defaults *)

\* C19 as claimed: with backoff_min and backoff_max not supplied, the delay
\* set by the first failure of a streak equals the cycle duration loop uses
\* for the same cycle argument (the argument, or 1.0 when it is None or zero),
\* and the cap of the backoff is 10 times that.
C19_BackoffFollowsCycle ==
    (DelaySet /\ cfg.backoff_min = None /\ cfg.backoff_max = None) =>
        /\ kfail = 1 => RatEq(dly, Rat(EffCycle(cfg.cycle)))
        /\ RatEq(BackoffMax(cfg), Rat(10 * EffCycle(cfg.cycle)))

====
